---- MODULE Spec2Model ----
(***************************************************************************)
(* Model of examples/skills/skills/weather-skill/scripts/get_humidity.py. *)
(*                                                                         *)
(* The script builds an argparse parser with one optional string option,  *)
(* --location (default "Mountain View"), parses sys.argv[1:], calls       *)
(* get_humidity(args.location) and prints what it returns.  get_humidity  *)
(* prints a notice line that embeds the location and returns a constant.  *)
(*                                                                         *)
(* Two specifications share the variables:                                *)
(*   Spec       one run of the script, from the command line to the exit; *)
(*   SpecCalls  get_humidity called repeatedly by an importing caller.    *)
(*                                                                         *)
(* Standard output and standard error are sequences of lines.  A write to *)
(* them always succeeds: the streams are open and can encode the text.    *)
(* The command line is a sequence of strings drawn from ArgTokens; the    *)
(* parser model follows argparse for tokens that are not "--" and not a   *)
(* cluster of single-dash options other than repeated -h.                 *)
(***************************************************************************)
EXTENDS Integers, Sequences, FiniteSets, TLC

VARIABLES
    argv,       \* sys.argv[1:], fixed for the run
    pc,         \* position of the run
    args,       \* the namespace returned by parse_args: [parsed, location]
    location,   \* get_humidity's parameter in the active call
    ret_pc,     \* where the active get_humidity call returns to
    out_mark,   \* number of stdout lines when the active call was entered
    ret,        \* value handed back by the last get_humidity call: [returned, value]
    stdout,     \* lines written to standard output
    stderr,     \* lines written to standard error
    exit_code,  \* process exit status, meaningful when pc = "exited"
    history     \* one record per completed get_humidity call

vars == <<argv, pc, args, location, ret_pc, out_mark, ret, stdout, stderr, exit_code, history>>

----------------------------------------------------------------------------
(* Bounds *)

MaxArgs == 3

MaxCalls == 3

(* Command-line words tried by the model: the flag, an abbreviation of it, *)
(* the flag with an attached value, a plain word, the empty word, the help *)
(* flag and a flag the parser does not know.                               *)
ArgTokens == {"--location", "--loc", "--location=Paris", "Tokyo", "", "-h", "--bogus"}

(* Locations a caller passes to get_humidity directly. *)
Locations == {"", "Tokyo", "Mountain View", "45% (Simulated)"}

RECURSIVE SeqsUpTo(_, _)
SeqsUpTo(S, n) ==
    IF n = 0 THEN {<<>>}
    ELSE LET shorter == SeqsUpTo(S, n - 1)
         IN  shorter \cup {Append(s, x) : s \in {t \in shorter : Len(t) = n - 1}, x \in S}

----------------------------------------------------------------------------
(* String helpers (str.startswith, "in", str.split(sep, 1), " ".join) *)

StartsWith(s, p) == Len(p) <= Len(s) /\ SubSeq(s, 1, Len(p)) = p

CharAt(s, i) == SubSeq(s, i, i)

Contains(s, c) == \E i \in 1..Len(s) : CharAt(s, i) = c

FirstIndex(s, c) == CHOOSE i \in 1..Len(s) :
                        /\ CharAt(s, i) = c
                        /\ \A j \in 1..(i - 1) : CharAt(s, j) # c

SplitHead(s, c) == SubSeq(s, 1, FirstIndex(s, c) - 1)

SplitTail(s, c) == SubSeq(s, FirstIndex(s, c) + 1, Len(s))

RECURSIVE Join(_)
Join(words) ==
    IF words = <<>> THEN ""
    ELSE IF Len(words) = 1 THEN words[1]
    ELSE words[1] \o " " \o Join(Tail(words))

Digits == {"0", "1", "2", "3", "4", "5", "6", "7", "8", "9"}

AllDigits(s, from, to) == \A i \in from..to : CharAt(s, i) \in Digits

(* argparse's _negative_number_matcher: ^-\d+$|^-\d*\.\d+$ *)
IsNegativeNumber(s) ==
    /\ Len(s) >= 2
    /\ CharAt(s, 1) = "-"
    /\ \/ AllDigits(s, 2, Len(s))
       \/ \E d \in 2..(Len(s) - 1) :
              /\ CharAt(s, d) = "."
              /\ AllDigits(s, 2, d - 1)
              /\ AllDigits(s, d + 1, Len(s))

----------------------------------------------------------------------------
(* The parser built on lines 11-12 and argparse's treatment of argv *)

(* Variant: the option is registered without its default text. *)
DefaultLocationEmpty == ""

DefaultLocation == "Mountain View"

Prog == "get_humidity.py"

(* Option strings registered on the parser: -h/--help by ArgumentParser(), *)
(* --location by add_argument.                                             *)
OptionAction == [o \in {"-h", "--help", "--location"} |->
                    IF o = "--location" THEN "store" ELSE "help"]

OptionStrings == DOMAIN OptionAction

Usage == "usage: " \o Prog \o " [-h] [--location LOCATION]"

HelpText == << Usage,
               "",
               "options:",
               "  -h, --help           show this help message and exit",
               "  --location LOCATION" >>

Positional == [kind |-> "A", action |-> "none", option |-> "", has_explicit |-> FALSE, explicit |-> ""]

Optional(action, option, has_explicit, explicit) ==
    [kind |-> "O", action |-> action, option |-> option,
     has_explicit |-> has_explicit, explicit |-> explicit]

Ambiguous == [kind |-> "E", action |-> "none", option |-> "", has_explicit |-> FALSE, explicit |-> ""]

(* _get_option_tuples: the registered options an abbreviated word stands   *)
(* for.  A "--" word is split at "=" and matched as a prefix; a single-    *)
(* dash word matches an option equal to its first two characters (the rest *)
(* is an attached value) or an option it is a prefix of.                   *)
OptionTuples(arg) ==
    IF CharAt(arg, 2) = "-"
    THEN LET has_eq == Contains(arg, "=")
             prefix == IF has_eq THEN SplitHead(arg, "=") ELSE arg
             value  == IF has_eq THEN SplitTail(arg, "=") ELSE ""
         IN  {Optional(OptionAction[o], o, has_eq, value) :
                 o \in {q \in OptionStrings : StartsWith(q, prefix)}}
    ELSE {Optional(OptionAction[o], o, TRUE, SubSeq(arg, 3, Len(arg))) :
             o \in {q \in OptionStrings : q = SubSeq(arg, 1, 2)}}
         \cup
         {Optional(OptionAction[o], o, FALSE, "") :
             o \in {q \in OptionStrings : q # SubSeq(arg, 1, 2) /\ StartsWith(q, arg)}}

(* _parse_optional: is the word an option ("O") or an argument ("A")? *)
parse_optional(arg) ==
    IF arg = "" THEN Positional
    ELSE IF CharAt(arg, 1) # "-" THEN Positional
    ELSE IF arg \in OptionStrings THEN Optional(OptionAction[arg], arg, FALSE, "")
    ELSE IF Len(arg) = 1 THEN Positional
    ELSE IF Contains(arg, "=") /\ SplitHead(arg, "=") \in OptionStrings
         THEN Optional(OptionAction[SplitHead(arg, "=")], SplitHead(arg, "="),
                       TRUE, SplitTail(arg, "="))
    ELSE IF Cardinality(OptionTuples(arg)) > 1 THEN Ambiguous
    ELSE IF Cardinality(OptionTuples(arg)) = 1 THEN CHOOSE t \in OptionTuples(arg) : TRUE
    ELSE IF IsNegativeNumber(arg) THEN Positional
    ELSE IF Contains(arg, " ") THEN Positional
    ELSE Optional("none", arg, FALSE, "")

ParseOk(loc) == [status |-> "ok", location |-> loc, message |-> ""]

ParseHelp == [status |-> "help", location |-> "", message |-> ""]

ParseError(msg) == [status |-> "error", location |-> "", message |-> msg]

(* A help option with an attached value: a "--" option ignores it with an *)
(* error; after -h the attached characters are read as further single-    *)
(* dash options, so only a run of h's is accepted.                        *)
HelpWithExplicit(opt) ==
    IF /\ CharAt(opt.option, 2) # "-"
       /\ opt.explicit # ""
       /\ \A i \in 1..Len(opt.explicit) : CharAt(opt.explicit, i) = "h"
    THEN ParseHelp
    ELSE ParseError("argument -h/--help: ignored explicit argument")

(* The loop of _parse_known_args from index i on, with the namespace's    *)
(* location so far and the unrecognised words collected so far.  Words    *)
(* that no option takes are extras (the parser has no positionals); an    *)
(* unknown option is an extra; --location takes the attached value or the *)
(* next word if that word is an argument; help exits at once.  parse_args *)
(* rejects leftover extras after the loop.                                *)
RECURSIVE consume(_, _, _, _)
consume(av, i, loc, extras) ==
    LET optIdx == {k \in i..Len(av) : parse_optional(av[k]).kind = "O"}
    IN  IF optIdx = {}
        THEN LET rest == extras \o SubSeq(av, i, Len(av))
             IN  IF rest = <<>> THEN ParseOk(loc)
                 ELSE ParseError("unrecognized arguments: " \o Join(rest))
        ELSE LET next == CHOOSE k \in optIdx : \A m \in optIdx : k <= m
                 opt  == parse_optional(av[next])
                 skipped == extras \o SubSeq(av, i, next - 1)
             IN  IF opt.action = "none"
                 THEN consume(av, next + 1, loc, Append(skipped, av[next]))
                 ELSE IF opt.has_explicit
                 THEN IF opt.action = "store"
                      THEN consume(av, next + 1, opt.explicit, skipped)
                      ELSE HelpWithExplicit(opt)
                 ELSE IF opt.action = "store"
                 THEN IF next + 1 <= Len(av) /\ parse_optional(av[next + 1]).kind = "A"
                      THEN consume(av, next + 2, av[next + 1], skipped)
                      ELSE ParseError("argument --location: expected one argument")
                 ELSE ParseHelp

(* Variant: unrecognised and incomplete input is tolerated, as with      *)
(* parse_known_args and a fallback to the default.                       *)
parse_args_lenient(av) ==
    LET res == consume(av, 1, DefaultLocation, <<>>)
    IN  IF res.status = "error" THEN ParseOk(DefaultLocation) ELSE res

(* parser.parse_args(): every word is classified first (an ambiguous     *)
(* abbreviation is rejected there), then the words are consumed starting *)
(* from the default namespace.                                           *)
parse_args(av) ==
    IF \E k \in 1..Len(av) : parse_optional(av[k]).kind = "E"
    THEN ParseError("ambiguous option")
    ELSE consume(av, 1, DefaultLocation, <<>>)

(* parser.error(message): usage and the message on stderr. *)
ErrorText(message) == << Usage, Prog \o ": error: " \o message >>

ExitOk == 0

ExitUncaught == 1

ExitUsage == 2

----------------------------------------------------------------------------
(* get_humidity, lines 4-7 *)

SimulatedHumidity == "45% (Simulated)"

(* Variant: the notice names the default place, not the argument. *)
NoticeLineFixed(loc) == "Fetching live humidity for " \o DefaultLocation \o "..."

NoticeLine(loc) == "Fetching live humidity for " \o loc \o "..."

(* Variant: an empty location gets an empty reading. *)
get_humidity_echo(loc) ==
    [printed |-> << NoticeLine(loc) >>,
     raised  |-> FALSE,
     value   |-> IF loc = "" THEN "" ELSE SimulatedHumidity]

(* Variant: a second progress line is printed. *)
get_humidity_chatty(loc) ==
    [printed |-> << NoticeLine(loc), "done" >>,
     raised  |-> FALSE,
     value   |-> SimulatedHumidity]

(* Variant: the reading is remembered after the first call and later     *)
(* calls report it as cached.                                            *)
get_humidity_cached(loc) ==
    [printed |-> << NoticeLine(loc) >>,
     raised  |-> FALSE,
     value   |-> IF history = <<>> THEN SimulatedHumidity ELSE "45% (Cached)"]

(* Variant: an empty location is rejected with ValueError. *)
get_humidity_validating(loc) ==
    [printed |-> << NoticeLine(loc) >>,
     raised  |-> loc = "",
     value   |-> SimulatedHumidity]

(* What the body does for a location: the lines it prints, whether it    *)
(* raises, and the value it returns.  The body has no condition on the   *)
(* location and no raise statement.                                      *)
get_humidity(loc) ==
    [printed |-> << NoticeLine(loc) >>,
     raised  |-> FALSE,
     value   |-> SimulatedHumidity]

Traceback == << "Traceback (most recent call last):" >>

NoArgs == [parsed |-> FALSE, location |-> ""]

NoRet == [returned |-> FALSE, value |-> ""]

----------------------------------------------------------------------------
(* One run of the script *)

Init ==
    /\ argv \in SeqsUpTo(ArgTokens, MaxArgs)
    /\ pc = "parse"
    /\ args = NoArgs
    /\ location = ""
    /\ ret_pc = ""
    /\ out_mark = 0
    /\ ret = NoRet
    /\ stdout = <<>>
    /\ stderr = <<>>
    /\ exit_code = 0
    /\ history = <<>>

(* Variant: the lookup is skipped after a successful parse. *)
AfterParseSkip(res) == IF res.status = "ok" THEN "main_end" ELSE "exited"

(* Variant: SystemExit from the parser is swallowed and the run goes on. *)
AfterParseContinue(res) == IF res.status = "help" THEN "exited" ELSE "main_call"

(* Where the run goes after parse_args: on to line 14 when a namespace   *)
(* came back; help and error leave through SystemExit, which the script  *)
(* does not catch.                                                       *)
AfterParse(res) == IF res.status = "ok" THEN "main_call" ELSE "exited"

(* Lines 11-13: build the parser and parse the command line. *)
Parse ==
    /\ pc = "parse"
    /\ LET res == parse_args(argv)
       IN  /\ pc' = AfterParse(res)
           /\ args' = IF res.status = "ok"
                      THEN [parsed |-> TRUE, location |-> res.location]
                      ELSE args
           /\ stdout' = IF res.status = "help" THEN stdout \o HelpText ELSE stdout
           /\ stderr' = IF res.status = "error"
                        THEN stderr \o ErrorText(res.message)
                        ELSE stderr
           /\ exit_code' = IF res.status = "help" THEN ExitOk
                           ELSE IF res.status = "error" THEN ExitUsage
                           ELSE exit_code
    /\ UNCHANGED <<argv, location, ret_pc, out_mark, ret, history>>

(* Line 14, the argument of print: call get_humidity(args.location). *)
MainCall ==
    /\ pc = "main_call"
    /\ location' = args.location
    /\ ret_pc' = "main_print"
    /\ out_mark' = Len(stdout)
    /\ pc' = "gh_print"
    /\ UNCHANGED <<argv, args, ret, stdout, stderr, exit_code, history>>

(* Line 6: the notice. *)
GH_Print ==
    /\ pc = "gh_print"
    /\ stdout' = stdout \o get_humidity(location).printed
    /\ pc' = "gh_return"
    /\ UNCHANGED <<argv, args, location, ret_pc, out_mark, ret, stderr, exit_code, history>>

(* Line 7: hand the value back to the caller.  An exception, had the     *)
(* body one, would reach the top level uncaught.                         *)
GH_Return ==
    /\ pc = "gh_return"
    /\ LET r == get_humidity(location)
           call == [location |-> location,
                    written  |-> SubSeq(stdout, out_mark + 1, Len(stdout)),
                    raised   |-> r.raised,
                    value    |-> r.value]
       IN  /\ history' = Append(history, call)
           /\ IF r.raised
              THEN /\ pc' = "exited"
                   /\ exit_code' = ExitUncaught
                   /\ stderr' = stderr \o Traceback
                   /\ ret' = ret
              ELSE /\ pc' = ret_pc
                   /\ ret' = [returned |-> TRUE, value |-> r.value]
                   /\ UNCHANGED <<stderr, exit_code>>
    /\ UNCHANGED <<argv, args, location, ret_pc, out_mark, stdout>>

(* Line 14, print(...) of the returned value. *)
MainPrint ==
    /\ pc = "main_print"
    /\ stdout' = Append(stdout, ret.value)
    /\ pc' = "main_end"
    /\ UNCHANGED <<argv, args, location, ret_pc, out_mark, ret, stderr, exit_code, history>>

(* End of the script: the interpreter exits with status 0. *)
MainExit ==
    /\ pc = "main_end"
    /\ exit_code' = ExitOk
    /\ pc' = "exited"
    /\ UNCHANGED <<argv, args, location, ret_pc, out_mark, ret, stdout, stderr, history>>

Next ==
    \/ Parse
    \/ MainCall
    \/ GH_Print
    \/ GH_Return
    \/ MainPrint
    \/ MainExit

Spec == Init /\ [][Next]_vars

(* The statements of line 14 and the exit that follows it. *)
Line14 == MainCall \/ GH_Print \/ GH_Return \/ MainPrint \/ MainExit

(* The script is one sequential thread with no blocking call: once       *)
(* parse_args has returned, a statement that can run does run.           *)
FairSpec == Spec /\ WF_vars(Line14)

----------------------------------------------------------------------------
(* get_humidity called directly, any number of times up to MaxCalls *)

InitCalls ==
    /\ argv = <<>>
    /\ pc = "idle"
    /\ args = NoArgs
    /\ location = ""
    /\ ret_pc = ""
    /\ out_mark = 0
    /\ ret = NoRet
    /\ stdout = <<>>
    /\ stderr = <<>>
    /\ exit_code = 0
    /\ history = <<>>

(* A caller that imported the module calls get_humidity(loc). *)
Invoke(loc) ==
    /\ pc = "idle"
    /\ Len(history) < MaxCalls
    /\ location' = loc
    /\ ret_pc' = "idle"
    /\ out_mark' = Len(stdout)
    /\ pc' = "gh_print"
    /\ UNCHANGED <<argv, args, ret, stdout, stderr, exit_code, history>>

NextCalls ==
    \/ \E loc \in Locations : Invoke(loc)
    \/ GH_Print
    \/ GH_Return

SpecCalls == InitCalls /\ [][NextCalls]_vars

----------------------------------------------------------------------------
(* Vocabulary of the properties: shapes of a command line *)

IsFlagWord(w) == Len(w) >= 2 /\ CharAt(w, 1) = "-"

IsLocationFlag(w) == w \in {"--location", "--loc"}

IsKnownFlag(w) == w = "-h" \/ IsLocationFlag(w) \/ StartsWith(w, "--location=")

UnknownFlagIn(av) == \E i \in 1..Len(av) : IsFlagWord(av[i]) /\ ~IsKnownFlag(av[i])

MissingValueIn(av) ==
    \E i \in 1..Len(av) :
        /\ IsLocationFlag(av[i])
        /\ (i = Len(av) \/ IsFlagWord(av[i + 1]))

StrayWordIn(av) ==
    \E i \in 1..Len(av) :
        /\ ~IsFlagWord(av[i])
        /\ (i = 1 \/ ~IsLocationFlag(av[i - 1]))

MalformedInput(av) == UnknownFlagIn(av) \/ MissingValueIn(av) \/ StrayWordIn(av)

HelpFlagIn(av) == \E i \in 1..Len(av) : av[i] = "-h"

NoLocationFlagIn(av) == \A i \in 1..Len(av) : ~StartsWith(av[i], "--l")

UsagePrinted == \E i \in 1..Len(stderr) : stderr[i] = "usage: get_humidity.py [-h] [--location LOCATION]"

UsageShown ==
    \/ UsagePrinted
    \/ \E i \in 1..Len(stdout) : stdout[i] = "usage: get_humidity.py [-h] [--location LOCATION]"

----------------------------------------------------------------------------
(* Properties *)

(* C1: for every input string, the empty one included, get_humidity      *)
(* returns exactly "45% (Simulated)"; the value does not depend on the   *)
(* input.  Checked under SpecCalls on every completed call.              *)
C1_ConstantResult ==
    /\ \A i \in 1..Len(history) : history[i].value = "45% (Simulated)"
    /\ ret.returned => ret.value = "45% (Simulated)"

C1_Witness ==
    /\ ret.returned
    /\ \E i, j \in 1..Len(history) :
          /\ history[i].location = ""
          /\ history[j].location = "Tokyo"

(* C2: in a run with --location L that parses, stdout gets the notice    *)
(* "Fetching live humidity for L..." with L verbatim, and the result     *)
(* line "45% (Simulated)" appears only after that notice.                *)
C2_NoticeThenResult ==
    /\ args.parsed =>
          /\ \A j \in 1..Len(stdout) :
                stdout[j] = "45% (Simulated)" =>
                    \E i \in 1..(j - 1) :
                        stdout[i] = "Fetching live humidity for " \o args.location \o "..."
          /\ pc = "exited" =>
                stdout = << "Fetching live humidity for " \o args.location \o "...",
                            "45% (Simulated)" >>
    /\ \A w \in {"Tokyo", ""} :
          (argv = << "--location", w >> /\ pc = "exited") =>
              stdout = << "Fetching live humidity for " \o w \o "...", "45% (Simulated)" >>

C2_Witness ==
    /\ pc = "exited"
    /\ argv = << "--location", "Tokyo" >>
    /\ stdout = << "Fetching live humidity for Tokyo...", "45% (Simulated)" >>

(* C3: a run without a --location flag passes "Mountain View" to         *)
(* get_humidity; its two output lines are the notice for Mountain View   *)
(* and the constant "45% (Simulated)".                                   *)
C3_DefaultLocation ==
    NoLocationFlagIn(argv) =>
        /\ pc \in {"gh_print", "gh_return"} => location = "Mountain View"
        /\ \A i \in 1..Len(history) : history[i].location = "Mountain View"
        /\ (pc = "exited" /\ args.parsed) =>
              stdout = << "Fetching live humidity for Mountain View...", "45% (Simulated)" >>
        /\ (pc = "exited" /\ argv = <<>>) => (args.parsed /\ exit_code = 0)

C3_Witness ==
    /\ argv = <<>>
    /\ pc = "exited"
    /\ stdout = << "Fetching live humidity for Mountain View...", "45% (Simulated)" >>

(* C4 as stated: a run with malformed input (an unknown flag, --location *)
(* with no value) prints usage and exits non-zero, and no run exits      *)
(* non-zero without malformed input (a stray word counts as malformed).  *)
C4_Original ==
    pc = "exited" =>
        /\ (UnknownFlagIn(argv) \/ MissingValueIn(argv)) => (UsageShown /\ exit_code # 0)
        /\ exit_code # 0 => MalformedInput(argv)

(* C4 amended: a run with malformed input and no help flag on the        *)
(* command line prints usage on stderr and exits with status 2; a run    *)
(* exits non-zero only on malformed input.  (A help flag reached before  *)
(* the parser reports the input prints help and exits 0.)                *)
C4_MalformedExitsNonZero ==
    pc = "exited" =>
        /\ (MalformedInput(argv) /\ ~HelpFlagIn(argv)) =>
              /\ exit_code = 2
              /\ Len(stderr) = 2
              /\ stderr[1] = "usage: get_humidity.py [-h] [--location LOCATION]"
              /\ stdout = <<>>
        /\ exit_code # 0 => (MalformedInput(argv) /\ UsagePrinted)

C4_Witness ==
    /\ pc = "exited"
    /\ exit_code = 2
    /\ argv = << "--bogus", "--location" >>
    /\ UsagePrinted

(* C5: every run whose arguments parse terminates with exit code 0,      *)
(* whatever the location, after exactly one get_humidity call whose      *)
(* result it printed.                                                    *)
C5_ParsedRunExitsZero ==
    /\ [](args.parsed =>
            /\ Len(history) <= 1
            /\ pc = "exited" =>
                  /\ exit_code = 0
                  /\ Len(history) = 1
                  /\ history[1].location = args.location
                  /\ ~history[1].raised
                  /\ stdout # <<>>
                  /\ stdout[Len(stdout)] = history[1].value)
    /\ (args.parsed ~> (pc = "exited" /\ exit_code = 0))

C5_Witness ==
    /\ pc = "exited"
    /\ exit_code = 0
    /\ args.parsed
    /\ args.location = "Paris"
    /\ Len(history) = 1

C7_HistoryIndependent ==
    \A i, j \in 1..Len(history) :
        (i < j /\ history[i].location = history[j].location) =>
            /\ history[j].value = history[i].value
            /\ history[j].written = history[i].written
            /\ history[j].raised = history[i].raised

C7_Witness ==
    /\ Len(history) = 3
    /\ history[1].location = "Tokyo"
    /\ history[2].location = ""
    /\ history[3].location = "Tokyo"

(* C8: get_humidity validates nothing and cannot fail: for every input,  *)
(* the empty string included, the call is accepted, runs to its return   *)
(* and yields a value; no error outcome is reachable inside it.          *)
C8_NoErrorOutcome ==
    /\ pc \in {"idle", "gh_print", "gh_return"}
    /\ stderr = <<>>
    /\ \A i \in 1..Len(history) : ~history[i].raised
    /\ (pc = "idle" /\ Len(history) < MaxCalls) =>
          \A loc \in Locations : ENABLED Invoke(loc)
    /\ pc = "gh_print" => ENABLED GH_Print
    /\ pc = "gh_return" => ENABLED GH_Return
    /\ (pc = "idle" /\ history # <<>>) => ret.returned

C8_Witness ==
    /\ pc = "idle"
    /\ ret.returned
    /\ \E i \in 1..Len(history) : history[i].location = ""

(* C9: when argument parsing fails the run ends before get_humidity is   *)
(* invoked: neither the notice nor the result line reaches stdout.       *)
C9_FailedParseNoLookup ==
    (stderr # <<>> \/ (pc = "exited" /\ exit_code # 0)) =>
        /\ pc = "exited"
        /\ ~args.parsed
        /\ history = <<>>
        /\ \A i \in 1..Len(stdout) :
              /\ stdout[i] # "45% (Simulated)"
              /\ ~StartsWith(stdout[i], "Fetching live humidity for ")

C9_Witness ==
    /\ pc = "exited"
    /\ exit_code = 2
    /\ argv = << "--location", "Tokyo", "--bogus" >>
    /\ stdout = <<>>

====
